---------------------------- MODULE Spec2Model ----------------------------
(***************************************************************************)
(* State-machine model of app.py: the per-posting qualification pipeline   *)
(* (check_relevance -> check_competitor -> determine_tier), the keep/drop  *)
(* gate and enrichment of process_job, the two-step careers-page resolver, *)
(* the recency filter and the loop of scrape_jobs_for_domain.              *)
(*                                                                         *)
(* Python strings are sequences of one-character strings, so that lower(), *)
(* split() and the `in` substring test are computed, not assumed.  Python  *)
(* values of unknown type (what json.loads may hand back) are tagged       *)
(* records [t, v]: t is the Python type name, v the characters of a str.   *)
(***************************************************************************)
EXTENDS Integers, Sequences, FiniteSets, TLC

\* ------------------------------------------------------------------ bounds

\* Longest table the scrape capability returns in a run.
MaxPostings == 2

\* Most words of a Posted Date text handed to is_job_recent on its own.
MaxDateWords == 4

\* ------------------------------------------------------- Python value model

\* Python None; also the value of a local that is not bound.
None == [t |-> "NoneType", v |-> <<>>]

\* A Python str with the characters s.
Str(s) == [t |-> "str", v |-> s]

\* A Python int, written with the digits s.
PyInt(s) == [t |-> "int", v |-> s]

UpperCase ==
    <<"A", "B", "C", "D", "E", "F", "G", "H", "I", "J", "K", "L", "M",
      "N", "O", "P", "Q", "R", "S", "T", "U", "V", "W", "X", "Y", "Z">>

LowerCase ==
    <<"a", "b", "c", "d", "e", "f", "g", "h", "i", "j", "k", "l", "m",
      "n", "o", "p", "q", "r", "s", "t", "u", "v", "w", "x", "y", "z">>

\* str.lower() on one character.
lower_char(c) ==
    IF \E i \in 1..Len(UpperCase) : UpperCase[i] = c
    THEN LowerCase[CHOOSE i \in 1..Len(UpperCase) : UpperCase[i] = c]
    ELSE c

\* str.lower().
lower(s) == [i \in 1..Len(s) |-> lower_char(s[i])]

\* The Python test `needle in hay` on two str.
contains(hay, needle) ==
    \E i \in 0..(Len(hay) - Len(needle)) :
        SubSeq(hay, i + 1, i + Len(needle)) = needle

\* str.split(): the maximal runs of non-blank characters, in order.
RECURSIVE split_from(_, _, _)
split_from(s, i, word) ==
    IF i > Len(s)
    THEN IF word = <<>> THEN <<>> ELSE <<word>>
    ELSE IF s[i] = " "
         THEN IF word = <<>>
              THEN split_from(s, i + 1, <<>>)
              ELSE <<word>> \o split_from(s, i + 1, <<>>)
         ELSE split_from(s, i + 1, Append(word, s[i]))

split(s) == split_from(s, 1, <<>>)

\* dict.get(key, default).
dict_get(d, key, default) == IF key \in DOMAIN d THEN d[key] ELSE default

\* any(f(x) for x in seq), for a sequence of booleans.
any(bs) == \E i \in 1..Len(bs) : bs[i]

\* What a call hands its caller: a value, or an exception that propagates.
Return(x) == [exc |-> FALSE, val |-> x]
Raise == [exc |-> TRUE, val |-> None]

\* ------------------------------------------------------- program constants

Yes == <<"Y", "e", "s">>
No == <<"N", "o">>
NA == <<"N", "/", "A">>
yes == <<"y", "e", "s">>
no == <<"n", "o">>
empty == <<>>
Fresher == <<"F", "r", "e", "s", "h", "e", "r">>
Mid == <<"M", "i", "d">>
Senior == <<"S", "e", "n", "i", "o", "r">>

FIELD_KEYWORDS ==
       (<<"D", "a", "t", "a", " ", "S", "c", "i", "e", "n", "c", "e">>
        :> <<"d", "a", "t", "a", " ", "s", "c", "i", "e", "n", "t", "i", "s", "t">>)
    @@ (<<"H", "u", "m", "a", "n", " ", "R", "e", "s", "o", "u", "r", "c", "e", "s">>
        :> <<"h", "u", "m", "a", "n", " ", "r", "e", "s", "o", "u", "r", "c", "e", "s">>)
    @@ (<<"D", "i", "g", "i", "t", "a", "l", " ", "T", "r", "a", "n", "s", "f", "o", "r", "m", "a", "t", "i", "o", "n">>
        :> <<"d", "i", "g", "i", "t", "a", "l", " ", "t", "r", "a", "n", "s", "f", "o", "r", "m", "a", "t", "i", "o", "n">>)
    @@ (<<"C", "y", "b", "e", "r", " ", "S", "e", "c", "u", "r", "i", "t", "y">>
        :> <<"c", "y", "b", "e", "r", " ", "s", "e", "c", "u", "r", "i", "t", "y">>)
    @@ (<<"F", "i", "n", "T", "e", "c", "h">>
        :> <<"f", "i", "n", "t", "e", "c", "h">>)
    @@ (<<"P", "r", "o", "j", "e", "c", "t", " ", "M", "a", "n", "a", "g", "e", "m", "e", "n", "t">>
        :> <<"p", "r", "o", "j", "e", "c", "t", " ", "m", "a", "n", "a", "g", "e", "m", "e", "n", "t">>)
    @@ (<<"S", "t", "r", "a", "t", "e", "g", "i", "c", " ", "M", "a", "n", "a", "g", "e", "m", "e", "n", "t">>
        :> <<"s", "t", "r", "a", "t", "e", "g", "i", "c", " ", "m", "a", "n", "a", "g", "e", "m", "e", "n", "t">>)
    @@ (<<"B", "u", "s", "i", "n", "e", "s", "s", " ", "M", "a", "n", "a", "g", "e", "m", "e", "n", "t">>
        :> <<"b", "u", "s", "i", "n", "e", "s", "s", " ", "m", "a", "n", "a", "g", "e", "m", "e", "n", "t">>)
    @@ (<<"G", "e", "n", "e", "r", "a", "l", " ", "M", "a", "n", "a", "g", "e", "m", "e", "n", "t">>
        :> <<"g", "e", "n", "e", "r", "a", "l", " ", "m", "a", "n", "a", "g", "e", "m", "e", "n", "t">>)
    @@ (<<"P", "r", "o", "d", "u", "c", "t", " ", "M", "a", "n", "a", "g", "e", "m", "e", "n", "t">>
        :> <<"p", "r", "o", "d", "u", "c", "t", " ", "m", "a", "n", "a", "g", "e", "m", "e", "n", "t">>)

competitor_list ==
    << <<"B", "Y", "J", "U", "'", "S">>,
       <<"U", "n", "a", "c", "a", "d", "e", "m", "y">>,
       <<"V", "e", "d", "a", "n", "t", "u">>,
       <<"T", "o", "p", "p", "r">>,
       <<"U", "p", "G", "r", "a", "d">>,
       <<"S", "i", "m", "p", "l", "i", "l", "e", "a", "r", "n">>,
       <<"W", "h", "i", "t", "e", "H", "a", "t", " ", "J", "r", ".">>,
       <<"C", "l", "a", "s", "s", "p", "l", "u", "s">>,
       <<"E", "m", "b", "i", "b", "e">>,
       <<"E", "d", "u", "G", "o", "r", "i", "l", "l", "a">>,
       <<"i", "Q", "u", "a", "n", "t", "a">>,
       <<"T", "r", "a", "i", "n", "e", "r", "C", "e", "n", "t", "r", "a", "l">>,
       <<"M", "e", "r", "i", "t", "n", "a", "t", "i", "o", "n">>,
       <<"T", "e", "s", "t", "b", "o", "o", "k">>,
       <<"E", "d", "u", "k", "a", "r", "t">>,
       <<"A", "d", "d", "a", "2", "4", "7">>,
       <<"C", "o", "l", "l", "e", "g", "e", "D", "e", "k", "h", "o">>,
       <<"L", "e", "v", "e", "r", "a", "g", "e", " ", "E", "d", "u">>,
       <<"N", "e", "x", "t", " ", "E", "d", "u", "c", "a", "t", "i", "o", "n">>,
       <<"I", "n", "f", "i", "n", "i", "t", "y", " ", "L", "e", "a", "r", "n">> >>

recent_phrases ==
    << <<"j", "u", "s", "t", " ", "n", "o", "w">>,
       <<"f", "e", "w", " ", "h", "o", "u", "r", "s">>,
       <<"t", "o", "d", "a", "y">>,
       <<"1", " ", "d", "a", "y">>,
       <<"2", " ", "d", "a", "y", "s">>,
       <<"3", " ", "d", "a", "y", "s">> >>

careers_suffix == <<" ", "c", "a", "r", "e", "e", "r", "s">>

\* ------------------------------------------------------------ sample inputs

\* Domains the selector offers (keys of FIELD_KEYWORDS) that the runs use.
DataScience == <<"D", "a", "t", "a", " ", "S", "c", "i", "e", "n", "c", "e">>
FinTech == <<"F", "i", "n", "T", "e", "c", "h">>
SampleDomains == {DataScience, FinTech}

\* Rows as scrape_url builds them (the columns the core reads).
PostingAcme ==
    ("Title" :> <<"D", "a", "t", "a", " ", "S", "c", "i", "e", "n", "t", "i", "s", "t">>)
    @@ ("Company" :> <<"A", "c", "m", "e", " ", "C", "o", "r", "p">>)
    @@ ("Experience" :> <<"2", " ", "y", "e", "a", "r", "s">>)
    @@ ("Description" :> <<"L", "o", "o", "k", "i", "n", "g", " ", "f", "o", "r", " ", "a", " ", "d", "a", "t", "a", " ", "s", "c", "i", "e", "n", "t", "i", "s", "t">>)
    @@ ("Posted Date" :> <<"T", "o", "d", "a", "y">>)

PostingLedger ==
    ("Title" :> <<"A", "c", "c", "o", "u", "n", "t", "a", "n", "t">>)
    @@ ("Company" :> <<"A", "c", "m", "e", " ", "C", "o", "r", "p">>)
    @@ ("Experience" :> <<"5", " ", "y", "e", "a", "r", "s">>)
    @@ ("Description" :> <<"L", "e", "d", "g", "e", "r", " ", "w", "o", "r", "k">>)
    @@ ("Posted Date" :> <<"J", "u", "s", "t", " ", "N", "o", "w">>)

PostingUnacademy ==
    ("Title" :> <<"D", "a", "t", "a", " ", "S", "c", "i", "e", "n", "t", "i", "s", "t">>)
    @@ ("Company" :> <<"U", "n", "a", "c", "a", "d", "e", "m", "y">>)
    @@ ("Experience" :> <<"2", " ", "y", "e", "a", "r", "s">>)
    @@ ("Description" :> <<"L", "o", "o", "k", "i", "n", "g", " ", "f", "o", "r", " ", "a", " ", "d", "a", "t", "a", " ", "s", "c", "i", "e", "n", "t", "i", "s", "t">>)
    @@ ("Posted Date" :> <<"P", "o", "s", "t", "e", "d", " ", "2", " ", "d", "a", "y", "s", " ", "a", "g", "o">>)

PostingOld ==
    ("Title" :> <<"F", "i", "n">>)
    @@ ("Company" :> <<"T", "o", "p", "p", "r">>)
    @@ ("Experience" :> <<>>)
    @@ ("Description" :> <<"t", "e", "c", "h", " ", "D", "A", "T", "A", "B", "A", "S", "E">>)
    @@ ("Posted Date" :> <<"3", " ", "w", "e", "e", "k", "s", " ", "a", "g", "o">>)

\* One listings page; a scrape returns a run of consecutive rows of it.
Listing == <<PostingAcme, PostingLedger, PostingUnacademy, PostingOld>>

ScrapeResults ==
    {s \in {SubSeq(Listing, i, j) :
            i \in 1..Len(Listing), j \in 0..Len(Listing)} :
        Len(s) <= MaxPostings}

CareersUrl == <<"h", "t", "t", "p", "s", ":", "/", "/", "a", "c", "m", "e", ".", "e", "x", "a", "m", "p", "l", "e", "/", "c", "a", "r", "e", "e", "r", "s">>

\* ------------------------------------------- the classification capability

\* What client.chat.completions.create can do: raise, or return a message
\* whose content is text.  The text is described by what json.loads makes of
\* it: <<"invalid">> (not JSON), <<"array">> (JSON, but no object) or
\* <<"object", d>> (a JSON object, d its members).
CallRaises == [raises |-> TRUE, content |-> <<"none">>]
Text(content) == [raises |-> FALSE, content |-> content]
Object(key, value) == Text(<<"object", key :> value>>)

\* Replies that carry no usable answer for any stage.
FailingReplies ==
    {CallRaises, Text(<<"invalid">>), Text(<<"array">>),
     Object("answer", Str(Yes))}

RelevanceReplies ==
    FailingReplies \cup
    {Object("is_relevant", x) :
        x \in {Str(Yes), Str(No), Str(yes), Str(<<"M", "a", "y", "b", "e">>),
               None}}

CompetitorReplies ==
    FailingReplies \cup
    {Object("is_competitor", x) :
        x \in {Str(Yes), Str(No), Str(<<"N", "O">>), PyInt(<<"1">>)}}

TierReplies ==
    FailingReplies \cup
    {Object("job_tier", x) :
        x \in {Str(Fresher), Str(Mid), Str(Senior),
               Str(<<"L", "e", "a", "d">>)}}

\* json.loads(res.choices[0].message.content).
json_loads(content) ==
    IF content[1] = "invalid" THEN Raise ELSE Return(content)

\* out.get(key, default) on what json.loads returned: only a dict has .get.
out_get(out, key, default) ==
    IF out[1] = "object"
    THEN Return(dict_get(out[2], key, default))
    ELSE Raise

\* ------------------------------------------------- the search capability

\* What tavily_client.search can do: raise, or return a dict, described as
\* <<"raise">>, <<"dict">> (no "results" member) or <<"results", rs>>.
SearchResponses ==
    {<<"raise">>, <<"dict">>, <<"results", <<>>>>,
     <<"results", <<"title" :> CareersUrl>>>>,
     <<"results", <<"url" :> CareersUrl>>>>}

\* ------------------------------------------------------------------- state

VARIABLES
    GLOBAL_FIELD,   \* the module global read by check_relevance
    pc,             \* where the run stands
    domain,         \* scrape_jobs_for_domain: its argument
    df_raw,         \* scrape_jobs_for_domain: the scraped rows
    idx,            \* scrape_jobs_for_domain: position of the for loop
    processed,      \* scrape_jobs_for_domain: the records kept so far
    job,            \* the row in hand (process_job mutates it)
    state,          \* process_job: the JobState of the graph run
    res,            \* the stage in hand: what the classification call did
    resp,           \* get_company_career_page: what each search call did
    url,            \* get_company_career_page: result of the first query
    link,           \* process_job: what the resolver returned
    p,              \* scrape_jobs_for_domain: what process_job returned
    calls,          \* the calls the run made to an external capability, in order
    ran,            \* the graph nodes the graph run in hand has executed, in order
    posted_date,       \* is_job_recent called on its own: its argument
    recent          \* is_job_recent called on its own: its result

vars ==
    <<GLOBAL_FIELD, pc, domain, df_raw, idx, processed, job, state, res,
      resp, url, link, p, calls, ran, posted_date, recent>>

\* The state of a call of is_job_recent on its own.
recency_vars == <<posted_date, recent>>

\* A log entry: the capability, the graph node (or "search") that called it,
\* the row it was called for and what the caller put into the prompt or query.
ClassifyCall(node, prompt) ==
    [cap |-> "classify", node |-> node, idx |-> idx, arg |-> prompt]
SearchCall(query) ==
    [cap |-> "search", node |-> "search", idx |-> idx, arg |-> query]

\* The values the three prompts are formatted from, in order.
relevance_prompt(s, field) == <<s.Title, s.Company, s.Description, field>>
competitor_prompt(s) == <<s.Company>> \o competitor_list
tier_prompt(s) == <<s.Title, s.Experience>>

\* ------------------------------------------------------------- check_relevance

\* text = (state['Title'] + ' ' + state['Description']).lower()
relevance_text(s) == lower(s.Title \o <<" ">> \o s.Description)

\* A variant of variants that does not split the keyword into tokens.
variants_unsplit(field) == <<dict_get(FIELD_KEYWORDS, field, field), field>>

\* variants = [v.strip() for v in FIELD_KEYWORDS.get(F, F).split()] + [F]
variants(field) == Append(split(dict_get(FIELD_KEYWORDS, field, field)), field)

\* any(kw in text for kw in variants)
keyword_match(s, field) ==
    LET vs == variants(field)
    IN  any([i \in 1..Len(vs) |-> contains(relevance_text(s), vs[i])])

\* A variant of stage_slot without the except clause: the failure propagates.
stage_slot_unguarded(reply, key, default) ==
    IF reply.raises
    THEN Raise
    ELSE LET out == json_loads(reply.content)
         IN  IF out.exc THEN Raise ELSE out_get(out.val, key, default)

\* The try/except around the call: what the stage writes into its slot.
stage_slot(reply, key, default) ==
    IF reply.raises
    THEN Return(default)
    ELSE LET out == json_loads(reply.content)
         IN  IF out.exc
             THEN Return(default)
             ELSE LET got == out_get(out.val, key, default)
                  IN  IF got.exc THEN Return(default) ELSE got

relevance_slot(reply) == stage_slot(reply, "is_relevant", Str(No))
competitor_slot(reply) == stage_slot(reply, "is_competitor", Str(No))
tier_slot(reply) == stage_slot(reply, "job_tier", Str(NA))

\* ------------------------------------------------------------ build_graph

\* g.set_entry_point('relevance')
entry_point == "relevance"

\* A variant of edge that wires 'tier' before 'competitor'.
edge_tier_first(node) ==
    CASE node = "relevance" -> "tier"
      [] node = "tier" -> "competitor"
      [] node = "competitor" -> "gate"

\* g.add_edge('relevance','competitor'); g.add_edge('competitor','tier');
\* g.set_finish_point('tier'): where control goes after a node returned
\* ("gate": invoke returns to process_job).
edge(node) ==
    CASE node = "relevance" -> "competitor"
      [] node = "competitor" -> "tier"
      [] node = "tier" -> "gate"

\* ------------------------------------------------------------ process_job

\* JobState(Title=..., ..., is_relevant=None, is_competitor=None, job_tier=None)
JobState(j) ==
    [Title |-> j["Title"], Company |-> j["Company"],
     Experience |-> j["Experience"], Description |-> j["Description"],
     is_relevant |-> None, is_competitor |-> None, job_tier |-> None]

\* x.lower() != lit, for x of any type: only a str has .lower().
lower_differs(x, lit) ==
    IF x.t = "str" THEN Return(lower(x.v) # lit) ELSE Raise

\* A variant of gate that joins the two tests with `and`.
gate_and(result) ==
    LET a == lower_differs(result.is_relevant, yes)
        b == lower_differs(result.is_competitor, no)
    IN  IF a.exc THEN "raise"
        ELSE IF ~a.val THEN "keep"
        ELSE IF b.exc THEN "raise"
        ELSE IF b.val THEN "drop"
        ELSE "keep"

\* A variant of gate that tests is_relevant only.
gate_relevance_only(result) ==
    LET a == lower_differs(result.is_relevant, yes)
    IN  IF a.exc THEN "raise" ELSE IF a.val THEN "drop" ELSE "keep"

\* A variant of gate that never returns None.
gate_keeps_all(result) ==
    LET a == lower_differs(result.is_relevant, yes)
        b == lower_differs(result.is_competitor, no)
    IN  IF a.exc THEN "raise"
        ELSE IF a.val THEN "keep"
        ELSE IF b.exc THEN "raise"
        ELSE "keep"

\* if result['is_relevant'].lower()!='yes' or result['is_competitor'].lower()!='no':
\*     return None
\* "raise", "drop" or "keep"; `or` evaluates its right side only when the
\* left side is false.
gate(result) ==
    LET a == lower_differs(result.is_relevant, yes)
        b == lower_differs(result.is_competitor, no)
    IN  IF a.exc THEN "raise"
        ELSE IF a.val THEN "drop"
        ELSE IF b.exc THEN "raise"
        ELSE IF b.val THEN "drop"
        ELSE "keep"

\* ------------------------------------------------- get_company_career_page

\* A variant of search_with_tavily without the except clause.
search_with_tavily_unguarded(r) ==
    IF r[1] = "raise" THEN Raise
    ELSE IF r[1] # "results" THEN Return(empty)
    ELSE IF r[2] = <<>> THEN Return(empty)
    ELSE IF "url" \notin DOMAIN r[2][1] THEN Raise
    ELSE Return(r[2][1]["url"])

\* search_with_tavily, given what tavily_client.search did.
search_with_tavily(r) ==
    IF r[1] = "raise" THEN Return(empty)
    ELSE IF r[1] # "results" THEN Return(empty)
    ELSE IF r[2] = <<>> THEN Return(empty)
    ELSE IF "url" \notin DOMAIN r[2][1] THEN Return(empty)
    ELSE Return(r[2][1]["url"])

\* The first query of get_company_career_page.
careers_query(company_name) == company_name \o careers_suffix

\* A variant of needs_second_query that always issues the second query.
always_second_query(u) == TRUE

\* url or search_with_tavily(company_name, ...): whether the right side runs.
needs_second_query(u) == u = empty

\* ----------------------------------------------------------- is_job_recent

\* A variant of is_job_recent that does not lower-case its argument.
is_job_recent_cased(date_str) ==
    any([i \in 1..Len(recent_phrases) |->
            contains(date_str, recent_phrases[i])])

is_job_recent(date_str) ==
    LET low == lower(date_str)
    IN  any([i \in 1..Len(recent_phrases) |-> contains(low, recent_phrases[i])])

\* A variant of keeps without the recency test.
keeps_any_date(q, j) == q # None

\* if p and is_job_recent(job['Posted Date'])
keeps(q, j) == q # None /\ is_job_recent(j["Posted Date"])

\* -------------------------------------------------------------------- Init

Init ==
    /\ GLOBAL_FIELD = empty
    /\ pc = "main"
    /\ domain = None
    /\ df_raw = <<>>
    /\ idx = 0
    /\ processed = <<>>
    /\ job = None
    /\ state = None
    /\ res = None
    /\ resp = <<>>
    /\ url = None
    /\ link = None
    /\ p = None
    /\ calls = <<>>
    /\ ran = <<>>
    /\ posted_date = <<>>
    /\ recent = "unset"

\* ----------------------------------------------------------------- actions

\* main -> scrape_jobs_for_domain up to the for loop, on the first click of
\* the button or on a later one (after a run returned or raised).  Its
\* assignment to GLOBAL_FIELD binds a local of the function: the module
\* global keeps what the last process_job call left in it, unless the
\* script was executed anew, which sets it to "" again.  The locals of the
\* run before are gone and the call log starts anew.
scrape_jobs_for_domain ==
    /\ pc \in {"main", "done", "raised"}
    /\ \E d \in SampleDomains, rows \in ScrapeResults :
        /\ d \in DOMAIN FIELD_KEYWORDS
        /\ domain' = d
        /\ df_raw' = rows
    /\ idx' = 1
    /\ processed' = <<>>
    /\ pc' = "loop"
    /\ job' = None
    /\ state' = None
    /\ res' = None
    /\ resp' = <<>>
    /\ url' = None
    /\ link' = None
    /\ p' = None
    /\ calls' = <<>>
    /\ ran' = <<>>
    /\ GLOBAL_FIELD' \in {GLOBAL_FIELD, empty}
    /\ UNCHANGED recency_vars

\* A variant of process_job that sends the careers query before the graph run.
process_job_search_first ==
    /\ pc = "loop"
    /\ idx <= Len(df_raw)
    /\ GLOBAL_FIELD' = domain
    /\ job' = df_raw[idx]
    /\ state' = JobState(df_raw[idx])
    /\ pc' = entry_point
    /\ ran' = <<>>
    /\ calls' = Append(calls, SearchCall(careers_query(df_raw[idx]["Company"])))
    /\ UNCHANGED <<domain, df_raw, idx, processed, res, resp, url, link, p>>
    /\ UNCHANGED recency_vars

\* A variant of process_job without the assignment to the global.
process_job_without_global ==
    /\ pc = "loop"
    /\ idx <= Len(df_raw)
    /\ job' = df_raw[idx]
    /\ state' = JobState(df_raw[idx])
    /\ pc' = entry_point
    /\ ran' = <<>>
    /\ UNCHANGED <<GLOBAL_FIELD, domain, df_raw, idx, processed, res, resp, url, link, p, calls>>
    /\ UNCHANGED recency_vars

\* The loop takes the next row and process_job starts on it.
process_job ==
    /\ pc = "loop"
    /\ idx <= Len(df_raw)
    /\ GLOBAL_FIELD' = domain
    /\ job' = df_raw[idx]
    /\ state' = JobState(df_raw[idx])
    /\ pc' = entry_point
    /\ ran' = <<>>
    /\ UNCHANGED <<domain, df_raw, idx, processed, res, resp, url, link, p, calls>>
    /\ UNCHANGED recency_vars

\* Graph node 'relevance'.
check_relevance ==
    /\ pc = "relevance"
    /\ \/ /\ keyword_match(state, GLOBAL_FIELD)
          /\ state' = [state EXCEPT !.is_relevant = Str(Yes)]
          /\ pc' = edge("relevance")
          /\ UNCHANGED <<res, calls>>
       \/ /\ ~keyword_match(state, GLOBAL_FIELD)
          /\ \E reply \in RelevanceReplies :
                /\ res' = reply
                /\ calls' = Append(calls, ClassifyCall("relevance",
                                        relevance_prompt(state, GLOBAL_FIELD)))
                /\ IF relevance_slot(reply).exc
                   THEN pc' = "raised" /\ state' = state
                   ELSE /\ pc' = edge("relevance")
                        /\ state' = [state EXCEPT
                                        !.is_relevant = relevance_slot(reply).val]
    /\ ran' = Append(ran, "relevance")
    /\ UNCHANGED <<GLOBAL_FIELD, domain, df_raw, idx, processed, job, resp, url, link, p>>
    /\ UNCHANGED recency_vars

\* Graph node 'competitor'.
check_competitor ==
    /\ pc = "competitor"
    /\ \E reply \in CompetitorReplies :
        /\ res' = reply
        /\ calls' = Append(calls, ClassifyCall("competitor", competitor_prompt(state)))
        /\ IF competitor_slot(reply).exc
           THEN pc' = "raised" /\ state' = state
           ELSE /\ pc' = edge("competitor")
                /\ state' = [state EXCEPT
                                !.is_competitor = competitor_slot(reply).val]
    /\ ran' = Append(ran, "competitor")
    /\ UNCHANGED <<GLOBAL_FIELD, domain, df_raw, idx, processed, job, resp, url, link, p>>
    /\ UNCHANGED recency_vars

\* Graph node 'tier'.
determine_tier ==
    /\ pc = "tier"
    /\ \E reply \in TierReplies :
        /\ res' = reply
        /\ calls' = Append(calls, ClassifyCall("tier", tier_prompt(state)))
        /\ IF tier_slot(reply).exc
           THEN pc' = "raised" /\ state' = state
           ELSE /\ pc' = edge("tier")
                /\ state' = [state EXCEPT !.job_tier = tier_slot(reply).val]
    /\ ran' = Append(ran, "tier")
    /\ UNCHANGED <<GLOBAL_FIELD, domain, df_raw, idx, processed, job, resp, url, link, p>>
    /\ UNCHANGED recency_vars

\* process_job after the graph run: the keep/drop gate, then job['Job Tier'].
keep_or_drop ==
    /\ pc = "gate"
    /\ res' = None
    /\ CASE gate(state) = "raise" ->
                /\ pc' = "raised"
                /\ UNCHANGED <<job, p>>
         [] gate(state) = "drop" ->
                /\ pc' = "filter"
                /\ p' = None
                /\ UNCHANGED job
         [] OTHER ->
                /\ pc' = "search1"
                /\ job' = ("Job Tier" :> state.job_tier) @@ job
                /\ UNCHANGED p
    /\ UNCHANGED <<GLOBAL_FIELD, domain, df_raw, idx, processed, state, resp, url, link, calls>>
    /\ UNCHANGED <<ran, posted_date, recent>>

\* get_company_career_page: the "{company_name} careers" query.
first_query ==
    /\ pc = "search1"
    /\ \E r \in SearchResponses :
        /\ resp' = Append(resp, r)
        /\ calls' = Append(calls, SearchCall(careers_query(job["Company"])))
        /\ IF search_with_tavily(r).exc
           THEN pc' = "raised" /\ UNCHANGED <<url, link>>
           ELSE /\ url' = search_with_tavily(r).val
                /\ IF needs_second_query(search_with_tavily(r).val)
                   THEN pc' = "search2" /\ UNCHANGED link
                   ELSE pc' = "link" /\ link' = search_with_tavily(r).val
    /\ UNCHANGED <<GLOBAL_FIELD, domain, df_raw, idx, processed, job, state, res, p>>
    /\ UNCHANGED <<ran, posted_date, recent>>

\* get_company_career_page: the bare company-name query.
second_query ==
    /\ pc = "search2"
    /\ \E r \in SearchResponses :
        /\ resp' = Append(resp, r)
        /\ calls' = Append(calls, SearchCall(job["Company"]))
        /\ IF search_with_tavily(r).exc
           THEN pc' = "raised" /\ UNCHANGED link
           ELSE pc' = "link" /\ link' = search_with_tavily(r).val
    /\ UNCHANGED <<GLOBAL_FIELD, domain, df_raw, idx, processed, job, state, res, url, p>>
    /\ UNCHANGED <<ran, posted_date, recent>>

\* A variant of attach_link without `if not link: return None`.
attach_link_keeps_unresolved ==
    /\ pc = "link"
    /\ job' = ("Job Link" :> link) @@ job
    /\ p' = ("Job Link" :> link) @@ job
    /\ resp' = <<>>
    /\ url' = None
    /\ pc' = "filter"
    /\ UNCHANGED <<GLOBAL_FIELD, domain, df_raw, idx, processed, state, res, link, calls>>
    /\ UNCHANGED <<ran, posted_date, recent>>

\* process_job after the resolver: if not link: return None; else job['Job Link'].
attach_link ==
    /\ pc = "link"
    /\ IF link = empty
       THEN p' = None /\ UNCHANGED job
       ELSE /\ job' = ("Job Link" :> link) @@ job
            /\ p' = ("Job Link" :> link) @@ job
    /\ resp' = <<>>
    /\ url' = None
    /\ pc' = "filter"
    /\ UNCHANGED <<GLOBAL_FIELD, domain, df_raw, idx, processed, state, res, link, calls>>
    /\ UNCHANGED <<ran, posted_date, recent>>

\* The loop body after process_job returned: the recency filter and append.
\* The locals of the finished process_job call are gone.
filter_recent ==
    /\ pc = "filter"
    /\ processed' = IF keeps(p, job) THEN Append(processed, p) ELSE processed
    /\ idx' = idx + 1
    /\ job' = None
    /\ state' = None
    /\ link' = None
    /\ p' = None
    /\ pc' = "loop"
    /\ ran' = <<>>
    /\ UNCHANGED <<GLOBAL_FIELD, domain, df_raw, res, resp, url, calls>>
    /\ UNCHANGED recency_vars

\* The loop is over: return pd.DataFrame(processed).
return_table ==
    /\ pc = "loop"
    /\ idx > Len(df_raw)
    /\ pc' = "done"
    /\ UNCHANGED <<GLOBAL_FIELD, domain, df_raw, idx, processed, job, state, res, resp, url, link, p, calls>>
    /\ UNCHANGED <<ran, posted_date, recent>>

\* ------------------------------------------ is_job_recent called on its own

\* Words a Posted Date text is made of.
DateWords ==
    {<<"P", "o", "s", "t", "e", "d">>,
     <<"2">>,
     <<"d", "a", "y", "s">>,
     <<"a", "g", "o">>,
     <<"J", "u", "s", "t">>,
     <<"N", "o", "w">>,
     <<"3">>,
     <<"w", "e", "e", "k", "s">>,
     <<"1", "1">>,
     <<"T", "O", "D", "A", "Y">>}

\* The number of words of a text whose words are joined by single blanks.
word_count(s) ==
    IF s = <<>> THEN 0
    ELSE 1 + Cardinality({i \in 1..Len(s) : s[i] = " "})

\* The text of the 'Posted Date' element grows by one word.
posted_date_word ==
    /\ recent = "unset"
    /\ word_count(posted_date) < MaxDateWords
    /\ \E w \in DateWords :
        posted_date' = IF posted_date = <<>>
                       THEN w
                       ELSE posted_date \o <<" ">> \o w
    /\ UNCHANGED recent
    /\ UNCHANGED <<GLOBAL_FIELD, pc, domain, df_raw, idx, processed, job, state,
                   res, resp, url, link, p, calls, ran>>

\* is_job_recent(posted_date) is called and returns.
call_is_job_recent ==
    /\ recent = "unset"
    /\ recent' = IF is_job_recent(posted_date) THEN "True" ELSE "False"
    /\ UNCHANGED posted_date
    /\ UNCHANGED <<GLOBAL_FIELD, pc, domain, df_raw, idx, processed, job, state,
                   res, resp, url, link, p, calls, ran>>

NextRecent ==
    \/ posted_date_word
    \/ call_is_job_recent

SpecRecent == Init /\ [][NextRecent]_vars

Next ==
    \/ scrape_jobs_for_domain
    \/ process_job
    \/ check_relevance
    \/ check_competitor
    \/ determine_tier
    \/ keep_or_drop
    \/ first_query
    \/ second_query
    \/ attach_link
    \/ filter_recent
    \/ return_table

Spec == Init /\ [][Next]_vars

\* ------------------------------------------------------------ properties

\* The JobState slots hold values once process_job has built the state.
InRun == state # None

\* Positions of the run after the named stage has returned.
AfterRelevance ==
    pc \in {"competitor", "tier", "gate", "search1", "search2", "link", "filter"}
AfterCompetitor == pc \in {"tier", "gate", "search1", "search2", "link", "filter"}
AfterTier == pc \in {"gate", "search1", "search2", "link", "filter"}

\* How many calls of the log were made for row i by the named node.
CallsOf(log, i, node) ==
    Cardinality({k \in 1..Len(log) : log[k].idx = i /\ log[k].node = node})

\* x is a str that reads lit when lower-cased.
ReadsAs(x, lit) == x.t = "str" /\ lower(x.v) = lit

\* C1: the step that takes the keep/drop decision lets the posting on to
\* enrichment exactly when is_relevant reads "yes" and is_competitor reads
\* "no" without regard to letter case; of the four combinations of "Yes"
\* and "No" only (Yes, No) goes on, and for the other three process_job
\* returns None.
C1_GateKeepsIffYesNo ==
    [][pc = "gate" =>
        LET r == state.is_relevant
            c == state.is_competitor
        IN  /\ (pc' = "search1") <=>
                    (ReadsAs(r, <<"y", "e", "s">>) /\ ReadsAs(c, <<"n", "o">>))
            /\ (r = Str(Yes) /\ c = Str(No)) => pc' = "search1"
            /\ ( /\ r \in {Str(Yes), Str(No)}
                 /\ c \in {Str(Yes), Str(No)}
                 /\ ~(r = Str(Yes) /\ c = Str(No)) )
               => (pc' = "filter" /\ p' = None)]_vars

\* A posting whose slots read yes/no only after lower-casing is past the gate.
C1_Witness ==
    /\ pc = "search1"
    /\ state.is_relevant = Str(<<"y", "e", "s">>)
    /\ state.is_competitor = Str(<<"N", "O">>)

\* Some whitespace-separated token of the active domain's keyword occurs in
\* the lower-cased text of the row in hand.
TokenInText ==
    LET text == lower(job["Title"] \o <<" ">> \o job["Description"])
        tokens == split(FIELD_KEYWORDS[domain])
    IN  \E i \in 1..Len(tokens) : contains(text, tokens[i])

\* C2: once the Relevance stage has run on a posting whose text contains a
\* token of the domain's keyword, is_relevant is "Yes" and the stage has
\* made no call to the classification capability.
C2_FastPathNoCall ==
    (InRun /\ pc # "relevance" /\ TokenInText) =>
        /\ state.is_relevant = Str(Yes)
        /\ CallsOf(calls, idx, "relevance") = 0

\* The token "data" is found inside "DATABASE": lower-casing and the split
\* into tokens both matter, and the classification capability was not called.
C2_Witness ==
    /\ pc = "competitor"
    /\ domain = DataScience
    /\ job = PostingOld
    /\ state.is_relevant = Str(Yes)
    /\ CallsOf(calls, idx, "relevance") = 0

\* C3 (as claimed): the job_tier written by determine_tier is one of
\* "Fresher", "Mid", "Senior", "N/A", whatever the capability replied.
C3_TierInEnumeration ==
    (InRun /\ AfterTier) =>
        state.job_tier \in {Str(Fresher), Str(Mid), Str(Senior), Str(NA)}

\* C4 (as claimed): after the Relevance stage is_relevant is exactly "Yes"
\* or "No", and after the Competitor stage is_competitor is exactly "Yes"
\* or "No".
C4_SlotsAreYesOrNo ==
    /\ (InRun /\ AfterRelevance) => state.is_relevant \in {Str(Yes), Str(No)}
    /\ (InRun /\ AfterCompetitor) => state.is_competitor \in {Str(Yes), Str(No)}

\* The classification call raised, or returned text that is not JSON.
CallFailed(reply) == reply.raises \/ reply.content[1] = "invalid"

\* C5: a stage whose classification call raised or returned unparseable
\* text goes on to the next stage with its default in its slot ("No" for
\* Relevance and Competitor, "N/A" for Tier), having made that one call.
C5_FailureWritesDefault ==
    [][ /\ (pc = "relevance" /\ calls' # calls /\ CallFailed(res')) =>
                /\ pc' = "competitor"
                /\ state'.is_relevant = Str(No)
                /\ Len(calls') = Len(calls) + 1
                /\ CallsOf(calls', idx, "relevance") = 1
        /\ (pc = "competitor" /\ CallFailed(res')) =>
                /\ pc' = "tier"
                /\ state'.is_competitor = Str(No)
                /\ Len(calls') = Len(calls) + 1
                /\ CallsOf(calls', idx, "competitor") = 1
        /\ (pc = "tier" /\ CallFailed(res')) =>
                /\ pc' = "gate"
                /\ state'.job_tier = Str(NA)
                /\ Len(calls') = Len(calls) + 1
                /\ CallsOf(calls', idx, "tier") = 1 ]_vars

\* All three calls of one posting failed in turn: the slots hold the defaults.
C5_Witness ==
    /\ pc = "gate"
    /\ res = Text(<<"invalid">>)
    /\ CallsOf(calls, idx, "relevance") = 1
    /\ state.is_relevant = Str(No)
    /\ state.is_competitor = Str(No)
    /\ state.job_tier = Str(NA)

\* C6 (as claimed): no exception leaves process_job, whatever the
\* capabilities do, so the loop of scrape_jobs_for_domain is never aborted.
C6_NoExceptionFromProcessJob == pc # "raised"

\* The Company of the row in hand is a name of competitor_list.
ListedCompany ==
    \E k \in 1..Len(competitor_list) : job["Company"] = competitor_list[k]

\* C7 (as claimed): for a posting whose Company is on competitor_list the
\* Competitor stage yields "Yes", and no posting of a listed company is in
\* the output.
C7_ListedCompanyAlwaysDropped ==
    /\ (InRun /\ AfterCompetitor /\ ListedCompany) =>
            state.is_competitor = Str(Yes)
    /\ \A n \in 1..Len(processed) :
            \A k \in 1..Len(competitor_list) :
                processed[n]["Company"] # competitor_list[k]

\* C7 (amended): for a posting whose Company is on competitor_list the
\* Competitor stage writes "Yes" when the classification capability answers
\* "Yes", and "No" when the call fails; a posting for which the stage wrote
\* "Yes" does not pass the gate and is never appended to the output of its
\* run, whatever the Relevance and Tier stages produced.
C7_ListedCompanyDroppedWhenDetected ==
    [][ /\ (pc = "competitor" /\ ListedCompany
                /\ res' = Object("is_competitor", Str(Yes))) =>
                    state'.is_competitor = Str(Yes)
        /\ (pc = "competitor" /\ ListedCompany /\ CallFailed(res')) =>
                    state'.is_competitor = Str(No)
        /\ (InRun /\ pc # "raised" /\ ListedCompany
                /\ state.is_competitor = Str(Yes)) =>
                /\ pc' # "search1"
                /\ processed' = processed ]_vars

\* A listed company's posting that the Relevance stage accepted and the
\* Competitor stage flagged has been dropped by the gate.
C7_Witness ==
    /\ pc = "filter"
    /\ ListedCompany
    /\ state.is_relevant = Str(Yes)
    /\ state.is_competitor = Str(Yes)
    /\ p = None
    /\ link = None

\* The search calls of the log made for row i, in order.
SearchesOf(log, i) ==
    SelectSeq(log, LAMBDA c : c.cap = "search" /\ c.idx = i)

\* The search response carries a URL in its first result.
YieldsUrl(r) ==
    /\ r[1] = "results"
    /\ r[2] # <<>>
    /\ "url" \in DOMAIN r[2][1]
    /\ r[2][1]["url"] # <<>>

\* C8: per company at most two queries are issued, the first "{company}
\* careers"; the bare-company query is issued only after the first query
\* yielded no result, and never when it yielded one.
C8_SecondQueryOnlyAfterEmptyFirst ==
    /\ \A i \in 1..Len(df_raw) :
        LET qs == SearchesOf(calls, i)
            company == df_raw[i]["Company"]
        IN  /\ Len(qs) <= 2
            /\ Len(qs) >= 1 => qs[1].arg = company \o <<" ">> \o
                                    <<"c", "a", "r", "e", "e", "r", "s">>
            /\ Len(qs) = 2 => qs[2].arg = company
    /\ Len(resp) <= 2
    /\ (pc \in {"search2", "link"}) => Len(resp) = Len(SearchesOf(calls, idx))
    /\ pc = "search2" => (Len(resp) = 1 /\ ~YieldsUrl(resp[1]))
    /\ Len(resp) = 2 => ~YieldsUrl(resp[1])
    /\ (Len(resp) >= 1 /\ YieldsUrl(resp[1])) =>
            (pc = "link" /\ Len(SearchesOf(calls, idx)) = 1)

\* The first query yielded a URL and the resolver returned it after one call.
C8_Witness ==
    /\ pc = "link"
    /\ Len(resp) = 1
    /\ YieldsUrl(resp[1])
    /\ link = CareersUrl
    /\ Len(SearchesOf(calls, idx)) = 1

\* C9: no step of get_company_career_page raises; a query that raised leaves
\* the resolver where an empty result leaves it (the first: on to the second
\* query with an empty url; the second: returning the empty string), and the
\* resolver returns the empty string when neither query yields a URL.
C9_ResolverNeverRaises ==
    [][(pc = "search1" \/ pc = "search2") =>
        LET r == resp'[Len(resp')]
        IN  /\ pc' # "raised"
            /\ Len(resp') = Len(resp) + 1
            /\ (pc = "search1" /\ ~YieldsUrl(r)) =>
                    (pc' = "search2" /\ url' = <<>> /\ link' = link)
            /\ (pc = "search2" /\ ~YieldsUrl(r)) =>
                    (pc' = "link" /\ link' = <<>>)
            /\ (pc = "search2" /\ pc' = "link") => ~YieldsUrl(resp'[1])
    ]_vars

\* Both queries raised and the resolver returned the empty string.
C9_Witness ==
    /\ pc = "link"
    /\ resp = <<(<<"raise">>), (<<"raise">>)>>
    /\ link = <<>>

\* The row in hand passed the keep/drop gate, the resolver returned a
\* non-empty URL for it and its Posted Date, as scraped, is recent.
Qualifies ==
    /\ ReadsAs(state.is_relevant, <<"y", "e", "s">>)
    /\ ReadsAs(state.is_competitor, <<"n", "o">>)
    /\ link # None
    /\ link # <<>>
    /\ is_job_recent(df_raw[idx]["Posted Date"])

\* C10: the loop appends the record of a posting to the table exactly when
\* the posting passed the gate, the resolver returned a non-empty URL and
\* is_job_recent holds of its Posted Date as scraped; the decision is taken
\* after enrichment, no other step changes the table, and no step changes
\* the Posted Date of the row in hand.
C10_TableMembership ==
    [][ /\ pc = "filter" =>
                IF Qualifies
                THEN /\ processed' = Append(processed, job)
                     /\ job["Title"] = df_raw[idx]["Title"]
                     /\ job["Company"] = df_raw[idx]["Company"]
                ELSE processed' = processed
        /\ (pc # "filter" /\ pc' # "loop") => processed' = processed
        /\ (pc # "filter" /\ pc' = "loop") => processed' = <<>>
        /\ (InRun /\ job' # None) =>
                job'["Posted Date"] = df_raw[idx]["Posted Date"] ]_vars

\* A finished run over two postings that kept one of them and dropped one.
C10_Witness ==
    /\ pc = "done"
    /\ Len(df_raw) = 2
    /\ Len(processed) = 1

\* The text s, lower-cased, has one of the six phrases as a substring.
HasRecencyPhrase(s) ==
    \E ph \in {<<"j", "u", "s", "t", " ", "n", "o", "w">>, <<"f", "e", "w", " ", "h", "o", "u", "r", "s">>,
               <<"t", "o", "d", "a", "y">>, <<"1", " ", "d", "a", "y">>,
               <<"2", " ", "d", "a", "y", "s">>, <<"3", " ", "d", "a", "y", "s">>} :
        \E i \in 1..Len(s) :
            /\ i + Len(ph) - 1 <= Len(s)
            /\ \A k \in 1..Len(ph) : lower_char(s[i + k - 1]) = ph[k]

\* C11: is_job_recent(s) is true exactly when the lower-cased s contains one
\* of 'just now', 'few hours', 'today', '1 day', '2 days', '3 days'; it is
\* true for "Posted 2 days ago" and "Just Now" and false for "3 weeks ago".
C11_RecentIffPhrase ==
    recent # "unset" =>
        /\ (recent = "True") <=> HasRecencyPhrase(posted_date)
        /\ posted_date = <<"P", "o", "s", "t", "e", "d", " ", "2", " ", "d", "a", "y", "s", " ", "a", "g", "o">>
                => recent = "True"
        /\ posted_date = <<"J", "u", "s", "t", " ", "N", "o", "w">> => recent = "True"
        /\ posted_date = <<"3", " ", "w", "e", "e", "k", "s", " ", "a", "g", "o">>
                => recent = "False"

\* is_job_recent returned true for "Just Now", which matches after lower().
C11_Witness ==
    /\ recent = "True"
    /\ posted_date = <<"J", "u", "s", "t", " ", "N", "o", "w">>

\* The three nodes in the order the graph wires them.
AllStages == <<"relevance", "competitor", "tier">>

\* C12: in every graph run the nodes execute once each in the order
\* Relevance, Competitor, Tier: at each node exactly the nodes before it
\* have run, and once control is back in process_job (the keep/drop
\* decision and all that follows) all three have run, whatever the
\* Relevance stage produced.
C12_StagesOnceInOrder ==
    InRun =>
        CASE pc = "relevance" -> ran = <<>>
          [] pc = "competitor" -> ran = <<"relevance">>
          [] pc = "tier" -> ran = <<"relevance", "competitor">>
          [] OTHER -> ran = AllStages

\* Relevance produced "No" and the Competitor and Tier stages ran all the
\* same, each with its call, before the keep/drop decision.
C12_Witness ==
    /\ pc = "gate"
    /\ state.is_relevant = Str(No)
    /\ ran = AllStages
    /\ CallsOf(calls, idx, "competitor") = 1
    /\ CallsOf(calls, idx, "tier") = 1

\* A decision slot is set when it holds something other than None.
IsSet(x) == x # None

\* C13 (as claimed): within a graph run job_tier set implies is_competitor
\* set and is_competitor set implies is_relevant set; a slot that is set
\* keeps its value for the rest of the run; and process_job reads the slots
\* only after the three stages have run.
C13_SlotsWriteOnceInOrder ==
    [][InRun =>
        /\ IsSet(state.job_tier) => IsSet(state.is_competitor)
        /\ IsSet(state.is_competitor) => IsSet(state.is_relevant)
        /\ state' # None =>
                /\ IsSet(state.is_relevant) =>
                        state'.is_relevant = state.is_relevant
                /\ IsSet(state.is_competitor) =>
                        state'.is_competitor = state.is_competitor
                /\ IsSet(state.job_tier) => state'.job_tier = state.job_tier
        /\ pc = "gate" => ran = AllStages ]_vars

\* The company a logged call was made for: the first value of a Competitor
\* prompt, the text before " careers" of a first query, the second query.
CallIsFor(c, row) ==
    CASE c.node = "relevance" ->
            c.arg[1] = row["Title"] /\ c.arg[2] = row["Company"]
      [] c.node = "competitor" -> c.arg[1] = row["Company"]
      [] c.node = "tier" -> c.arg[1] = row["Title"]
      [] OTHER -> c.arg \in {row["Company"], careers_query(row["Company"])}

\* C14: the calls of a run to the external capabilities are made posting by
\* posting in scrape order: a call for a row is never followed by a call
\* for an earlier row, no call is made for a row the loop has not reached,
\* each call carries the values of its own row, within one row no
\* classification call follows a search call, and a row gets at most one
\* call per graph node and at most two search calls.
C14_OnePostingAtATime ==
    /\ \A k \in 1..Len(calls) :
            /\ calls[k].idx \in 1..Len(df_raw)
            /\ calls[k].idx <= idx
            /\ CallIsFor(calls[k], df_raw[calls[k].idx])
    /\ \A k, m \in 1..Len(calls) :
            k < m =>
                /\ calls[k].idx <= calls[m].idx
                /\ (calls[k].idx = calls[m].idx /\ calls[k].cap = "search")
                        => calls[m].cap = "search"
    /\ \A i \in 1..Len(df_raw) :
            /\ \A node \in {"relevance", "competitor", "tier"} :
                    CallsOf(calls, i, node) <= 1
            /\ Len(SearchesOf(calls, i)) <= 2

\* A run over two postings that made all five calls for the first and then
\* all five for the second.
C14_Witness ==
    /\ pc = "done"
    /\ Len(df_raw) = 2
    /\ Len(calls) = 10
    /\ calls[5].cap = "search" /\ calls[5].idx = 1
    /\ calls[6].cap = "classify" /\ calls[6].idx = 2

\* C15: a process_job call starts from the row and the domain it was given
\* and from nothing an earlier call left behind: it sets GLOBAL_FIELD to its
\* domain, builds a fresh state, and finds no resolver leftovers; during the
\* whole call GLOBAL_FIELD is the domain of the call, so the Relevance stage
\* takes the fast path exactly when the keywords of that domain match, and
\* otherwise asks about that domain.
C15_ResultIndependentOfEarlierCalls ==
    [][/\ (pc = "loop" /\ pc' = "relevance") =>
            /\ GLOBAL_FIELD' = domain
            /\ job' = df_raw[idx]
            /\ state' = JobState(df_raw[idx])
            /\ ran' = <<>>
            /\ resp = <<>> /\ url = None /\ link = None /\ p = None
       /\ InRun => GLOBAL_FIELD = domain
       /\ pc = "relevance" =>
            /\ (calls' = calls) <=> keyword_match(state, domain)
            /\ calls' = calls => state'.is_relevant = Str(Yes)
            /\ calls' # calls =>
                    calls'[Len(calls')].arg = relevance_prompt(state, domain)
      ]_vars

\* An earlier run for FinTech left GLOBAL_FIELD behind, and process_job is
\* about to be called for the first row of a Data Science run.
C15_Witness ==
    /\ pc = "loop"
    /\ idx = 1
    /\ Len(df_raw) >= 1
    /\ domain = DataScience
    /\ GLOBAL_FIELD = FinTech

\* C16: every record of the table carries all fields of a scraped row, a
\* Job Tier and a non-empty Job Link.  A record is appended only as the
\* posting in hand with Job Tier equal to the job_tier of its graph run and
\* Job Link equal to the non-empty URL the resolver returned; that URL is
\* what the last search response gave for a query on the posting's own
\* Company.  A posting whose resolver returned "" makes process_job return
\* None, leaves the table as it was, and the loop goes on to the next row.
C16_RecordsComplete ==
    [][/\ \A n \in 1..Len(processed) :
            /\ {"Job Tier", "Job Link"} \subseteq DOMAIN processed[n]
            /\ processed[n]["Job Link"] # empty
            /\ \E row \in {Listing[i] : i \in 1..Len(Listing)} :
                    \A f \in DOMAIN row : processed[n][f] = row[f]
       /\ (pc = "filter" /\ processed' # processed) =>
            /\ processed' = Append(processed, p)
            /\ \A f \in DOMAIN df_raw[idx] : p[f] = df_raw[idx][f]
            /\ p["Job Tier"] = state.job_tier
            /\ p["Job Link"] = link
            /\ link # empty
       /\ pc = "link" =>
            /\ job["Company"] = df_raw[idx]["Company"]
            /\ link = search_with_tavily(resp[Len(resp)]).val
            /\ calls[Len(calls)].cap = "search"
            /\ calls[Len(calls)].idx = idx
            /\ calls[Len(calls)].arg \in
                    {job["Company"], careers_query(job["Company"])}
            /\ link = empty => p' = None
       /\ (pc = "filter" /\ p = None) =>
            /\ processed' = processed
            /\ idx' = idx + 1
            /\ pc' = "loop"
      ]_vars

\* The first posting's record is in the table with its tier and link, and
\* the second posting, whose two queries yielded no URL, is being dropped.
C16_Witness ==
    /\ pc = "filter"
    /\ idx = 2
    /\ Len(processed) = 1
    /\ processed[1]["Job Tier"] = Str(Senior)
    /\ processed[1]["Job Link"] = CareersUrl
    /\ link = empty
    /\ p = None
    /\ Len(SearchesOf(calls, 2)) = 2

\* The posting in hand passes the keep/drop gate.
PassesGate == ReadsAs(state.is_relevant, yes) /\ ReadsAs(state.is_competitor, no)

\* C17: a search call is made for a posting only after its graph run ended
\* and only if the posting passes the keep/drop gate; when process_job has
\* returned for a posting the gate dropped, no search call was made for it,
\* and for a posting that passed at least one was, whatever its Posted Date;
\* no search call exists for a row the loop has not reached.
C17_SearchOnlyAfterGate ==
    /\ \A k \in 1..Len(calls) : calls[k].cap = "search" => calls[k].idx <= idx
    /\ ~InRun => \A k \in 1..Len(calls) : calls[k].idx < idx
    /\ InRun =>
        /\ Len(SearchesOf(calls, idx)) > 0 =>
                /\ ran = AllStages
                /\ pc \notin {"gate", "search1"}
                /\ PassesGate
        /\ (pc \in {"link", "filter"} /\ PassesGate) =>
                Len(SearchesOf(calls, idx)) >= 1
        /\ (pc = "filter" /\ ~PassesGate) => Len(SearchesOf(calls, idx)) = 0

\* A posting that passed the gate got its queries although its Posted Date
\* is not recent.
C17_Witness ==
    /\ pc = "filter"
    /\ PassesGate
    /\ ~is_job_recent(job["Posted Date"])
    /\ Len(SearchesOf(calls, idx)) >= 1
    /\ p # None
====
